---- MODULE Spec2Model ----
(***************************************************************************)
(* Model of cirq_scaleway: the ScalewaySession lifecycle (start, stop,     *)
(* delete, status, the `with` protocol) and the job submission / polling   *)
(* path (run_sweep, _submit, _wait_for_result,                             *)
(* _extract_payload_from_response), together with the remote QaaS service  *)
(* the session talks to through QaaSClient; and the ScalewayQuantumService *)
(* and ScalewayDevice objects a session is obtained from.                  *)
(***************************************************************************)
EXTENDS Integers, Sequences, FiniteSets, TLC

\* ---------------------------------------------------------------- bounds
MaxBindings == 2       \* parameter resolvers in one sweep
MaxShots == 1          \* largest repetitions argument
MaxResults == 2        \* longest result list the remote side returns
MaxFetchInterval == 1
MaxTimeout == 2
MaxDelay == 1          \* extra wall-clock seconds one poll iteration may take
MaxPollTime == 2
MaxPlatforms == 3      \* platforms in one answer of list_platforms

\* ------------------------------------------------------------ value sets
None == "None"
NoTimeout == -1        \* stands for timeout=None
SessionIds == {"s1", "s2"}
Resolvers == <<"b1", "b2", "b3", "b4">>  \* the resolvers of a sweep, by position
Payloads == {"p1", "p2", "bad"}
InlineValues == {None, ""} \cup Payloads
Urls == {None, "", "u1"}
ProgressMessages == {None, "simulator crashed"}
SessionStatuses == {"starting", "running", "stopping", "stopped"}
JobStatuses == {"queued", "running", "completed", "error", "unknown_status"}
\* Arguments of ScalewayDevice.create_session; a duration given as an int
\* number of seconds is written with its digits.
DeviceIds == {"dev-1", "p-123"}
SessionNames == {"qsim-session-from-cirq", "my-session"}
DeduplicationIds == {"qsim-session-from-cirq", "dedup-1"}
Durations == {"1h", "20m", "3600"}
\* The platforms of the remote side, by position: ids and qubit counts.
PlatformIds == <<"dev-1", "p-123", "p-3", "p-4">>
QubitCounts == <<5, 12, 20, 32>>
\* backend_name and availability of a platform
PlatformKinds == {<<"qsim", "scarce">>, <<"qsim", "shortage">>,
                  <<"aer", "scarce">>}
NoMinimum == -1        \* stands for min_num_qubits=None

\* Python truthiness of an Optional[str]: None and "" are falsy.
Truthy(x) == x # None /\ x # ""

\* ---------------------------------------------------------------- errors
\* An exception is the sequence of the pieces of its message.
NoError == << >>
AlreadyStarted == <<"session already started">>
NotStarted == <<"session not started">>
TimedOut == <<"Timed out waiting for result">>
PushFailed == <<"Failed to push circuit data">>
NotSingleResult == <<"Expected a single result for Cirq job">>
EmptyResult == <<"Got result with empty data and url fields">>
JobFailed(msg) == <<"Job failed: ", msg>>
\* exceptions raised by the collaborators
TransportError == <<"transport error">>
HTTPError == <<"http error">>
DecodeError == <<"undecodable result payload">>
SerializeError == <<"unsupported serialization">>
BodyError == <<"error raised by the block body">>
SecretKeyMissing == <<"secret_key is missing">>
ProjectIdMissing == <<"project_id is missing">>
\* TypeError: __init__() got an unexpected keyword argument
UnexpectedKeyword == <<"unexpected keyword argument">>

VARIABLES
    id,              \* ScalewaySession.__id
    pc,              \* caller position: "idle", or inside run_sweep
    block,           \* "out" | "in": inside a `with session:` block
    entry_id,        \* __id when the block was entered
    closing,         \* "none" | "terminate" | "delete": the last request
                     \* sent to end the remote session
    op,              \* the last operation begun
    err,             \* the exception the last operation raised to its caller
    ret,             \* the value the last status query returned
    sweep_ret,       \* the list the last run_sweep returned
    exit_exc,        \* exc_val handed to the last __exit__
    stop_exc,        \* what stop() raised inside the last __exit__
    requests,        \* the requests sent by the last operation (by the
                     \* current loop iteration inside run_sweep), in order
    session_status,  \* the status the remote side gave to the get_session
                     \* of the last operation ("none": it was not asked)
    jobs,            \* remote jobs of the run_sweep in progress, id = index
    models,          \* remote models of the run_sweep in progress
    program,         \* run_sweep: the variable `program`
    params,          \* run_sweep: the resolvers still to iterate, in order
    all_params,      \* run_sweep: the resolvers of the call
    repetitions,     \* run_sweep: repetitions
    trial_results,   \* run_sweep: trial_results
    job_id,          \* _submit: job_id
    elapsed,         \* _wait_for_result: time.time() - start_time
    last_status,     \* _wait_for_result: job.status of the last fetched job
    job_result,      \* _extract_payload_from_response: job_result
    fetch_interval,  \* _wait_for_result: fetch_interval
    timeout,         \* _wait_for_result: timeout
    prev_ret,        \* what the status query before the last one returned,
                     \* when the two were made in a row (None otherwise)
    created_id,      \* the id in the answer to the create_session of the
                     \* last operation (None: there was no answer)
    session_name,        \* ScalewaySession.__name
    deduplication_id,    \* ScalewaySession.__deduplication_id
    max_duration,        \* ScalewaySession.__max_duration
    max_idle_duration,   \* ScalewaySession.__max_idle_duration
    device_id,           \* ScalewaySession.__device.id
    environ,         \* what os.getenv answered for the three variables
                     \* to the last ScalewayQuantumService(...)
    service_args,    \* the arguments of the last ScalewayQuantumService(...)
    client,          \* ScalewayQuantumService.__client
    service_op,      \* the last operation begun on the service or a device
    service_err,     \* the exception that operation raised
    service_requests, \* the requests that operation sent, in order
    platforms,       \* what list_platforms answered to that operation
    filters,         \* devices(): the dict `filters`
    devices_ret,     \* the list the last devices() returned
    device           \* the last ScalewayDevice that was constructed

sessionVars == <<id, block, entry_id, closing>>
exitVars == <<exit_exc, stop_exc>>
remoteVars == <<session_status, jobs, models>>
sweepVars == <<program, params, all_params, repetitions, trial_results>>
submitVars == <<job_id, elapsed, last_status, job_result>>
paramVars == <<fetch_interval, timeout>>
sideVars == <<id, pc, block, entry_id, closing, op, err, ret, sweep_ret,
              exit_exc, stop_exc, requests, session_status, jobs, models,
              program, params, all_params, repetitions, trial_results,
              job_id, elapsed, last_status, job_result, fetch_interval,
              timeout, prev_ret, created_id>>
ctorVars == <<session_name, deduplication_id, max_duration,
              max_idle_duration, device_id>>
serviceVars == <<environ, service_args, client, service_op, service_err,
                 service_requests, platforms, filters, devices_ret, device>>
vars == <<id, pc, block, entry_id, closing, op, err, ret, sweep_ret, exit_exc,
          stop_exc, requests, session_status, jobs, models, program, params,
          all_params, repetitions, trial_results, job_id, elapsed,
          last_status, job_result, fetch_interval, timeout, prev_ret,
          created_id,
          session_name, deduplication_id, max_duration, max_idle_duration,
          device_id, environ, service_args, client, service_op, service_err,
          service_requests, platforms, filters, devices_ret, device>>

Request(name, arg) == [op |-> name, arg |-> arg]

\* The circuit the caller passes to run_sweep, with free symbols.
Circuit == [kind |-> "circuit", binding |-> None]
NoJobResult == [result |-> None, url |-> None]

\* ScalewaySession.__init__, and the caller about to use the session.
NewSession ==
    /\ id = None
    /\ pc = "idle"
    /\ block = "out"
    /\ entry_id = None
    /\ closing = "none"
    /\ op = "init"
    /\ err = NoError
    /\ ret = None
    /\ sweep_ret = << >>
    /\ exit_exc = NoError
    /\ stop_exc = NoError
    /\ requests = << >>
    /\ session_status = "none"
    /\ jobs = << >>
    /\ models = << >>
    /\ program = Circuit
    /\ params = << >>
    /\ all_params = << >>
    /\ repetitions = 1
    /\ trial_results = << >>
    /\ job_id = 0
    /\ elapsed = 0
    /\ last_status = None
    /\ job_result = NoJobResult
    /\ prev_ret = None
    /\ created_id = None

\* _wait_for_result(job_id, fetch_interval, timeout): its two parameters.
WaitParams ==
    /\ fetch_interval \in 1..MaxFetchInterval
    /\ timeout \in {NoTimeout} \cup (1..MaxTimeout)

\* _DEFAULT_FETCH_INTERVAL and _DEFAULT_TIMEOUT
DefaultFetchInterval == 2
DefaultTimeout == 21600   \* 60 * 360

\* The defaults of ScalewayDevice.create_session.
DefaultSessionArgs ==
    [name |-> "qsim-session-from-cirq",
     deduplication_id |-> "qsim-session-from-cirq",
     max_duration |-> "1h",
     max_idle_duration |-> "20m"]

\* The arguments a caller may give to ScalewayDevice.create_session.
SessionArgs ==
    [name : SessionNames, deduplication_id : DeduplicationIds,
     max_duration : Durations, max_idle_duration : Durations]

\* ScalewaySession.__init__: the arguments are stored as they are.
StoreArgs(dev, args) ==
    /\ session_name = args.name
    /\ deduplication_id = args.deduplication_id
    /\ max_duration = args.max_duration
    /\ max_idle_duration = args.max_idle_duration
    /\ device_id = dev

NoArgs == [project_id |-> None, secret_key |-> None, url |-> None]
NoClient == [created |-> FALSE, url |-> None, secret_key |-> None,
             project_id |-> None]
NoDevice == [id |-> None, name |-> None, version |-> None, num_qubits |-> 0]
NoFilters == [operational |-> None, min_num_qubits |-> NoMinimum]

\* No ScalewayQuantumService has been constructed.
NoService ==
    /\ environ = NoArgs
    /\ service_args = NoArgs
    /\ client = NoClient
    /\ service_op = "none"
    /\ service_err = NoError
    /\ service_requests = << >>
    /\ platforms = << >>
    /\ filters = NoFilters
    /\ devices_ret = << >>
    /\ device = NoDevice

\* A session made by create_session() on the device "dev-1".
Init ==
    /\ NewSession
    /\ WaitParams
    /\ StoreArgs("dev-1", DefaultSessionArgs)
    /\ NoService

\* A session made by create_session(...) with any arguments on any device.
SessionInit ==
    /\ NewSession
    /\ fetch_interval = DefaultFetchInterval
    /\ timeout = DefaultTimeout
    /\ \E dev \in DeviceIds, args \in SessionArgs : StoreArgs(dev, args)
    /\ NoService

\* The caller is between two operations and may begin another one.
CanCall == pc = "idle"

\* A new operation begins: the frames of the previous one are gone.
Begin(name) ==
    /\ op' = name
    /\ exit_exc' = NoError
    /\ stop_exc' = NoError

\* An operation of the session touches neither what its constructor
\* stored nor the service and the device.
SessionOnly == UNCHANGED <<ctorVars, serviceVars>>

\* The operation is not run_sweep: nothing of a sweep is in scope.
NoSweep ==
    /\ sweep_ret' = << >>
    /\ jobs' = << >>
    /\ models' = << >>
    /\ program' = Circuit
    /\ params' = << >>
    /\ all_params' = << >>
    /\ repetitions' = 1
    /\ trial_results' = << >>
    /\ job_id' = 0
    /\ elapsed' = 0
    /\ last_status' = None
    /\ job_result' = NoJobResult
    /\ UNCHANGED <<pc, paramVars>>

\* ------------------------------------------------------ ScalewaySession
\* The keyword arguments of create_session with max_duration and
\* max_idle_duration taken for one another.
CreateSessionArgsSwapped ==
    [name |-> session_name, platform_id |-> device_id,
     deduplication_id |-> deduplication_id,
     max_duration |-> max_idle_duration,
     max_idle_duration |-> max_duration]

\* The keyword arguments start() gives to client.create_session.
CreateSessionArgs ==
    [name |-> session_name, platform_id |-> device_id,
     deduplication_id |-> deduplication_id,
     max_duration |-> max_duration,
     max_idle_duration |-> max_idle_duration]

\* start() that binds the identifier although create_session raised.
StartOutcomeBindsOnFailure(fails, newid) ==
    IF Truthy(id)
    THEN [id |-> id, err |-> AlreadyStarted, requests |-> << >>]
    ELSE [id |-> newid, err |-> IF fails THEN TransportError ELSE NoError,
          requests |-> <<Request("create_session", CreateSessionArgs)>>]

\* start() without its `if self.__id` guard.
StartOutcomeUnguarded(fails, newid) ==
    IF fails
    THEN [id |-> id, err |-> TransportError,
          requests |-> <<Request("create_session", CreateSessionArgs)>>]
    ELSE [id |-> newid, err |-> NoError,
          requests |-> <<Request("create_session", CreateSessionArgs)>>]

\* start(): the new __id, the exception raised, the requests sent and the
\* remote status, for a create_session that raises or answers `newid`.
StartOutcome(fails, newid) ==
    IF Truthy(id)
    THEN [id |-> id, err |-> AlreadyStarted, requests |-> << >>]
    ELSE IF fails
    THEN [id |-> id, err |-> TransportError,
          requests |-> <<Request("create_session", CreateSessionArgs)>>]
    ELSE [id |-> newid, err |-> NoError,
          requests |-> <<Request("create_session", CreateSessionArgs)>>]

\* stop() that asks for the purge instead of the termination.
StopOutcomeDeletes(fails) ==
    IF ~Truthy(id)
    THEN [err |-> NotStarted, requests |-> << >>]
    ELSE [err |-> IF fails THEN TransportError ELSE NoError,
          requests |-> <<Request("delete_session", id)>>]

\* stop(): the exception raised and the requests sent, for a
\* terminate_session that raises or not.
StopOutcome(fails) ==
    IF ~Truthy(id)
    THEN [err |-> NotStarted, requests |-> << >>]
    ELSE [err |-> IF fails THEN TransportError ELSE NoError,
          requests |-> <<Request("terminate_session", id)>>]

\* delete() without its `if not self.__id` guard.
DeleteOutcomeUnguarded(fails) ==
    [err |-> IF fails THEN TransportError ELSE NoError,
     requests |-> <<Request("delete_session", id)>>]

\* delete(): the same for delete_session.
DeleteOutcome(fails) ==
    IF ~Truthy(id)
    THEN [err |-> NotStarted, requests |-> << >>]
    ELSE [err |-> IF fails THEN TransportError ELSE NoError,
          requests |-> <<Request("delete_session", id)>>]

\* The status property with the last value it returned kept in a field.
StatusOutcomeCached(fails, remote) ==
    IF ~Truthy(id)
    THEN [ret |-> "unknown_status", err |-> NoError, requests |-> << >>]
    ELSE IF ret \in SessionStatuses
    THEN [ret |-> ret, err |-> NoError, requests |-> << >>]
    ELSE [ret |-> IF fails THEN None ELSE remote,
          err |-> IF fails THEN TransportError ELSE NoError,
          requests |-> <<Request("get_session", id)>>]

\* The status property without its `if not self.__id` guard.
StatusOutcomeUnguarded(fails, remote) ==
    [ret |-> IF fails THEN None ELSE remote,
     err |-> IF fails THEN TransportError ELSE NoError,
     requests |-> <<Request("get_session", id)>>]

\* The status property: the value returned, the exception raised and the
\* requests sent, for a get_session that raises or answers `remote`.
StatusOutcome(fails, remote) ==
    IF ~Truthy(id)
    THEN [ret |-> "unknown_status", err |-> NoError, requests |-> << >>]
    ELSE [ret |-> IF fails THEN None ELSE remote,
          err |-> IF fails THEN TransportError ELSE NoError,
          requests |-> <<Request("get_session", id)>>]

Start ==
    /\ CanCall
    /\ Begin("start")
    /\ \E fails \in BOOLEAN, newid \in SessionIds :
          LET o == StartOutcome(fails, newid) IN
          /\ id' = o.id
          /\ err' = o.err
          /\ requests' = o.requests
          /\ session_status' = "none"
          /\ created_id' = IF o.requests # << >> /\ ~fails
                            THEN newid ELSE None
    /\ ret' = None
    /\ NoSweep
    /\ UNCHANGED <<block, entry_id, closing>>
    /\ prev_ret' = None
    /\ SessionOnly

Stop ==
    /\ CanCall
    /\ Begin("stop")
    /\ \E fails \in BOOLEAN :
          LET o == StopOutcome(fails) IN
          /\ err' = o.err
          /\ requests' = o.requests
          /\ closing' = IF o.requests # << >> THEN "terminate" ELSE closing
    /\ ret' = None
    /\ session_status' = "none"
    /\ NoSweep
    /\ UNCHANGED <<id, block, entry_id>>
    /\ prev_ret' = None
    /\ created_id' = None
    /\ SessionOnly

Delete ==
    /\ CanCall
    /\ Begin("delete")
    /\ \E fails \in BOOLEAN :
          LET o == DeleteOutcome(fails) IN
          /\ err' = o.err
          /\ requests' = o.requests
          /\ closing' = IF o.requests # << >> THEN "delete" ELSE closing
    /\ ret' = None
    /\ session_status' = "none"
    /\ NoSweep
    /\ UNCHANGED <<id, block, entry_id>>
    /\ prev_ret' = None
    /\ created_id' = None
    /\ SessionOnly

\* The remote session is in whatever status the remote side has moved it
\* to by the time it is asked; the answer is `remote`.
Status ==
    /\ CanCall
    /\ Begin("status")
    /\ \E fails \in BOOLEAN, remote \in SessionStatuses :
          LET o == StatusOutcome(fails, remote) IN
          /\ ret' = o.ret
          /\ err' = o.err
          /\ requests' = o.requests
          /\ session_status' = IF o.requests # << >> THEN remote ELSE "none"
    /\ NoSweep
    /\ UNCHANGED sessionVars
    /\ prev_ret' = ret
    /\ created_id' = None
    /\ SessionOnly

\* __enter__: start(), then the block body runs.
Enter ==
    /\ CanCall
    /\ block = "out"
    /\ Begin("enter")
    /\ \E fails \in BOOLEAN, newid \in SessionIds :
          LET o == StartOutcome(fails, newid) IN
          /\ id' = o.id
          /\ err' = o.err
          /\ requests' = o.requests
          /\ session_status' = "none"
          /\ created_id' = IF o.requests # << >> /\ ~fails
                            THEN newid ELSE None
          /\ block' = IF o.err = NoError THEN "in" ELSE "out"
          /\ entry_id' = IF o.err = NoError THEN o.id ELSE entry_id
    /\ ret' = None
    /\ NoSweep
    /\ UNCHANGED closing
    /\ prev_ret' = None
    /\ SessionOnly

\* What leaves a `with` statement whose body raised `exc` and whose
\* __exit__ raised `raised` (__exit__ returns False otherwise): an
\* exception raised by __exit__ replaces the one in flight.
Propagated(exc, raised) == IF raised # NoError THEN raised ELSE exc

\* __exit__(exc_type, exc_val, exc_tb): the body ended normally, raised an
\* error of its own, or let the error of its last operation escape.
Exit ==
    /\ pc = "idle"
    /\ block = "in"
    /\ op' = "exit"
    /\ \E exc \in {NoError, BodyError, err}, fails \in BOOLEAN :
          LET o == StopOutcome(fails) IN
          /\ exit_exc' = exc
          /\ stop_exc' = o.err
          /\ requests' = o.requests
          /\ err' = Propagated(exc, o.err)
          /\ closing' = IF o.requests # << >> THEN "terminate" ELSE closing
    /\ block' = "out"
    /\ ret' = None
    /\ session_status' = "none"
    /\ NoSweep
    /\ UNCHANGED <<id, entry_id>>
    /\ prev_ret' = None
    /\ created_id' = None
    /\ SessionOnly

\* ------------------------------------------------------------ run_sweep
\* cirq.study.to_resolvers(params): the resolvers of a sweep, in order.
Sweeps == {SubSeq(Resolvers, 1, n) : n \in 0..MaxBindings}

\* cirq.protocols.resolve_parameters(program, param_resolver): a circuit
\* gets its symbols bound; a value that is no circuit is returned as is.
Resolve(prog, resolver) ==
    IF prog.kind = "circuit"
    THEN [kind |-> "circuit", binding |-> resolver]
    ELSE prog

\* QuantumProgram.from_cirq_circuit(circuit, CIRQ_CIRCUIT_JSON_V1)
Serialize(circuit) == [kind |-> "program", binding |-> circuit.binding]

\* QuantumProgramResult.from_json_str(payload).to_cirq_result()
Decodable(payload) == payload \in {"p1", "p2"}
Decode(payload) == IF payload = "p1" THEN "r1" ELSE "r2"

\* trial_results.insert(0, results)
PrependResult(results, r) == <<r>> \o results

\* trial_results.append(results)
AppendResult(results, r) == Append(results, r)

\* run_sweep up to its loop.
RunSweep ==
    /\ CanCall
    /\ Begin("run_sweep")
    /\ trial_results' = << >>
    /\ ret' = None
    /\ sweep_ret' = << >>
    /\ requests' = << >>
    /\ jobs' = << >>
    /\ models' = << >>
    /\ job_id' = 0
    /\ elapsed' = 0
    /\ last_status' = None
    /\ job_result' = NoJobResult
    /\ program' = Circuit
    /\ \E ps \in Sweeps : params' = ps /\ all_params' = ps
    /\ repetitions' \in 1..MaxShots
    /\ IF ~Truthy(id)
       THEN err' = NotStarted /\ pc' = "idle"
       ELSE err' = NoError /\ pc' = "loop"
    /\ session_status' = "none"
    /\ UNCHANGED <<sessionVars, paramVars>>
    /\ prev_ret' = None
    /\ created_id' = None
    /\ SessionOnly

\* The loop is exhausted: return trial_results.
Return ==
    /\ pc = "loop"
    /\ params = << >>
    /\ pc' = "idle"
    /\ sweep_ret' = trial_results
    /\ UNCHANGED <<sessionVars, exitVars, op, err, ret, requests,
                   remoteVars, sweepVars, submitVars, paramVars>>
    /\ UNCHANGED <<prev_ret, created_id>>
    /\ SessionOnly

\* A job created without the session it belongs to.
NewJobUnbound(session, model, shots) ==
    [session |-> None, model |-> model, shots |-> shots,
     status |-> "queued", progress_message |-> None, nres |-> 0,
     delivered |-> None]

\* The remote job created by create_job.
NewJob(session, model, shots) ==
    [session |-> session, model |-> model, shots |-> shots,
     status |-> "queued", progress_message |-> None, nres |-> 0,
     delivered |-> None]

\* One loop iteration up to the first sleep of _wait_for_result: resolve,
\* serialize, then _submit's create_model and create_job.
Submit ==
    /\ pc = "loop"
    /\ params # << >>
    /\ params' = Tail(params)
    /\ job_result' = NoJobResult
    /\ last_status' = None
    /\ LET circuit == Resolve(program, Head(params))
           pushed == <<Request("create_model", None)>>
           created == Append(pushed, Request("create_job", id))
       IN
       \/ \* from_cirq_circuit is handed something that is no circuit
          /\ circuit.kind # "circuit"
          /\ err' = SerializeError
          /\ pc' = "idle"
          /\ requests' = << >>
          /\ UNCHANGED <<program, jobs, models, job_id, elapsed>>
       \/ \* create_model raises
          /\ program' = Serialize(circuit)
          /\ requests' = pushed
          /\ err' = TransportError
          /\ pc' = "idle"
          /\ UNCHANGED <<jobs, models, job_id, elapsed>>
       \/ \* create_model returns no model
          /\ program' = Serialize(circuit)
          /\ requests' = pushed
          /\ err' = PushFailed
          /\ pc' = "idle"
          /\ UNCHANGED <<jobs, models, job_id, elapsed>>
       \/ \* create_model returns a model, create_job raises
          /\ program' = Serialize(circuit)
          /\ models' = Append(models, [program |-> program'])
          /\ requests' = created
          /\ err' = TransportError
          /\ pc' = "idle"
          /\ UNCHANGED <<jobs, job_id, elapsed>>
       \/ \* the job is created: _wait_for_result takes start_time
          /\ program' = Serialize(circuit)
          /\ models' = Append(models, [program |-> program'])
          /\ jobs' = Append(jobs, NewJob(id, Len(models'), repetitions))
          /\ requests' = created
          /\ job_id' = Len(jobs')
          /\ elapsed' = 0
          /\ pc' = "poll"
          /\ UNCHANGED err
    /\ UNCHANGED <<sessionVars, exitVars, op, ret, sweep_ret,
                   session_status, all_params, repetitions, trial_results,
                   paramVars>>
    /\ UNCHANGED <<prev_ret, created_id>>
    /\ SessionOnly

\* --------------------------------------------------- _wait_for_result
\* `timeout is not None and elapsed > timeout`
TimeoutExceeded(e, t) == t # NoTimeout /\ e > t

\* The timeout tested before the sleep of the iteration: `e` is the
\* elapsed time after it.
TimeoutReachedBeforeSleep(e, t) == t # NoTimeout /\ e - fetch_interval >= t

\* `timeout is not None and elapsed >= 2 * timeout`
TimeoutDoubled(e, t) == t # NoTimeout /\ e >= 2 * t

\* `timeout is not None and elapsed >= timeout`
TimeoutReached(e, t) == t # NoTimeout /\ e >= t

\* The loop with `if job.status == "error"` as its failure test.
VerdictErrorOnly(status) ==
    IF status = "completed" THEN "results"
    ELSE IF status = "error" THEN "failed"
    ELSE "again"

\* What the loop does with the status of a fetched job.
Verdict(status) ==
    IF status = "completed" THEN "results"
    ELSE IF status \in {"error", "unknown_status"} THEN "failed"
    ELSE "again"

\* `len(job_results) < 1`, negated, for a list of length n
SomeResult(n) == n >= 1

\* `len(job_results) != 1`, negated, for a list of length n
SingleResult(n) == n = 1

JobResults == [result : InlineValues, url : Urls]

\* _extract_payload_from_response: what it does first with a job result.
Extraction(jr) ==
    IF jr.result = None \/ jr.result = ""
    THEN IF jr.url # None THEN "fetch" ELSE "empty"
    ELSE "inline"

\* A remote job only moves forward: queued -> running -> terminal.
Forward(status) ==
    IF status = "queued" THEN JobStatuses
    ELSE IF status = "running" THEN JobStatuses \ {"queued"}
    ELSE {status}

\* The remote job `j` as it is when the next get_job reaches the remote
\* side: it may have moved forward since the last request, and a job that
\* has just ended has its progress message and its results.
RemoteJobs(j) ==
    LET next == Forward(jobs[j].status) \ {jobs[j].status} IN
    {jobs}
    \cup {[jobs EXCEPT ![j].status = s] : s \in next \cap {"running"}}
    \cup {[jobs EXCEPT ![j].status = s, ![j].nres = n]
            : s \in next \cap {"completed"}, n \in 0..MaxResults}
    \cup {[jobs EXCEPT ![j].status = s, ![j].progress_message = m,
                        ![j].nres = n]
            : s \in next \cap {"error", "unknown_status"},
              m \in ProgressMessages, n \in 0..MaxResults}

\* An iteration that goes on to the next resolver when the payload cannot
\* be decoded.
FinishKeepsGoing(js, payload) ==
    /\ jobs' = [js EXCEPT ![job_id].delivered = payload]
    /\ pc' = "loop"
    /\ IF Decodable(payload)
       THEN /\ trial_results' = AppendResult(trial_results, Decode(payload))
            /\ UNCHANGED err
       ELSE /\ err' = DecodeError
            /\ UNCHANGED trial_results

\* The end of a loop iteration once the payload text is known: decode it
\* and append the result.
Finish(js, payload) ==
    /\ jobs' = [js EXCEPT ![job_id].delivered = payload]
    /\ IF Decodable(payload)
       THEN /\ trial_results' = AppendResult(trial_results, Decode(payload))
            /\ pc' = "loop"
            /\ UNCHANGED err
       ELSE /\ err' = DecodeError
            /\ pc' = "idle"
            /\ UNCHANGED trial_results

\* One iteration of `while True`: sleep, timeout check, get_job, and for a
\* completed job the rest of _submit.
Poll ==
    /\ pc = "poll"
    /\ timeout = NoTimeout => elapsed < MaxPollTime
    /\ \E d \in 0..MaxDelay :
          elapsed' = elapsed + fetch_interval + d
    /\ IF TimeoutReached(elapsed', timeout)
       THEN /\ err' = TimedOut
            /\ pc' = "idle"
            /\ UNCHANGED <<requests, jobs, trial_results, last_status,
                           job_result>>
       ELSE
         LET polled == Append(requests, Request("get_job", job_id))
             listed == Append(polled, Request("list_job_results", job_id))
         IN
         \/ \* get_job raises
            /\ requests' = polled
            /\ err' = TransportError
            /\ pc' = "idle"
            /\ UNCHANGED <<jobs, trial_results, last_status, job_result>>
         \/ \E js \in RemoteJobs(job_id) :
            LET job == js[job_id] IN
            /\ last_status' = job.status
            /\ \/ \* queued or running: next iteration
                  /\ Verdict(job.status) = "again"
                  /\ requests' = polled
                  /\ jobs' = js
                  /\ UNCHANGED <<pc, err, trial_results, job_result>>
               \/ \* error or unknown_status
                  /\ Verdict(job.status) = "failed"
                  /\ requests' = polled
                  /\ jobs' = js
                  /\ err' = JobFailed(job.progress_message)
                  /\ pc' = "idle"
                  /\ UNCHANGED <<trial_results, job_result>>
               \/ \* completed, list_job_results raises
                  /\ Verdict(job.status) = "results"
                  /\ requests' = listed
                  /\ jobs' = js
                  /\ err' = TransportError
                  /\ pc' = "idle"
                  /\ UNCHANGED <<trial_results, job_result>>
               \/ \* completed, the result list is not a single result
                  /\ Verdict(job.status) = "results"
                  /\ ~SingleResult(job.nres)
                  /\ err' = NotSingleResult
                  /\ pc' = "idle"
                  /\ requests' = listed
                  /\ jobs' = js
                  /\ UNCHANGED <<trial_results, job_result>>
               \/ \* completed, job_results[0] goes to the extraction
                  /\ Verdict(job.status) = "results"
                  /\ SingleResult(job.nres)
                  /\ \E jr \in JobResults :
                     LET fetched == Append(listed, Request("http_get", jr.url))
                     IN
                     /\ job_result' = jr
                     /\ \/ /\ Extraction(jr) = "empty"
                           /\ err' = EmptyResult
                           /\ pc' = "idle"
                           /\ requests' = listed
                           /\ jobs' = js
                           /\ UNCHANGED trial_results
                        \/ /\ Extraction(jr) = "inline"
                           /\ requests' = listed
                           /\ Finish(js, jr.result)
                        \/ \* httpx.get or raise_for_status raises
                           /\ Extraction(jr) = "fetch"
                           /\ requests' = fetched
                           /\ err' = HTTPError
                           /\ pc' = "idle"
                           /\ jobs' = js
                           /\ UNCHANGED trial_results
                        \/ \* resp.text
                           /\ Extraction(jr) = "fetch"
                           /\ requests' = fetched
                           /\ \E body \in Payloads : Finish(js, body)
    /\ UNCHANGED <<sessionVars, exitVars, op, ret, sweep_ret,
                   session_status, models, program, params, all_params,
                   repetitions, job_id, paramVars>>
    /\ UNCHANGED <<prev_ret, created_id>>
    /\ SessionOnly

Next ==
    \/ Start
    \/ Stop
    \/ Delete
    \/ Status
    \/ Enter
    \/ Exit
    \/ RunSweep
    \/ Return
    \/ Submit
    \/ Poll

Spec == Init /\ [][Next]_vars

\* The session used for its lifecycle only.
SessionNext ==
    \/ Start
    \/ Stop
    \/ Delete
    \/ Status
    \/ Enter
    \/ Exit

SessionSpec == SessionInit /\ [][SessionNext]_vars

\* The session started and used for sweeps only. The thread that is inside
\* the `while True` of _wait_for_result keeps running.
WaitNext ==
    \/ Start
    \/ RunSweep
    \/ Return
    \/ Submit
    \/ Poll

WaitSpec == Init /\ [][WaitNext]_vars /\ WF_vars(Poll)

\* ------------------------------------------------ ScalewayQuantumService
\* What the three environment variables may hold: unset, empty or a value.
Environs ==
    [project_id : {None, "", "env-project"},
     secret_key : {None, "", "env-key"},
     url : {None, "env-url"}]

\* The arguments of ScalewayQuantumService(project_id, secret_key, url).
ServiceArgs ==
    [project_id : {None, "", "project"},
     secret_key : {None, "", "key"},
     url : {None, "url"}]

\* `os.getenv(...) or arg`
ResolvedEnvFirst(arg, env) == IF Truthy(env) THEN env ELSE arg

\* `arg or os.getenv(...)`
Resolved(arg, env) == IF Truthy(arg) THEN arg ELSE env

\* No service yet, and a session made by create_session() that is left
\* alone.
ServiceInit ==
    /\ NewSession
    /\ fetch_interval = DefaultFetchInterval
    /\ timeout = DefaultTimeout
    /\ StoreArgs("dev-1", DefaultSessionArgs)
    /\ NoService

\* ScalewayQuantumService.__init__
NewService ==
    /\ service_op' = "init"
    /\ \E args \in ServiceArgs, env \in Environs :
          LET secret_key == Resolved(args.secret_key, env.secret_key)
              project_id == Resolved(args.project_id, env.project_id)
              url == Resolved(args.url, env.url)
          IN
          /\ service_args' = args
          /\ environ' = env
          /\ IF secret_key = None
             THEN service_err' = SecretKeyMissing /\ client' = NoClient
             ELSE IF project_id = None
             THEN service_err' = ProjectIdMissing /\ client' = NoClient
             ELSE /\ service_err' = NoError
                  /\ client' = [created |-> TRUE, url |-> url,
                                secret_key |-> secret_key,
                                project_id |-> project_id]
    /\ service_requests' = << >>
    /\ platforms' = << >>
    /\ filters' = NoFilters
    /\ devices_ret' = << >>
    /\ UNCHANGED <<device, ctorVars, sideVars>>

\* --------------------------------------------------------- ScalewayDevice
\* The parameters of ScalewayDevice.__init__ after self; none has a default.
DeviceParams == {"client", "id", "name", "version", "num_qubits", "metadata"}

\* ScalewayDevice(**kwargs): the call binds the keyword arguments to the
\* parameters, which raises TypeError unless they are exactly the
\* parameters; then __init__ stores the fields.
NewDevice(kwargs) ==
    IF DOMAIN kwargs = DeviceParams
    THEN [err |-> NoError,
          device |-> [id |-> kwargs.id, name |-> kwargs.name,
                      version |-> kwargs.version,
                      num_qubits |-> kwargs.num_qubits]]
    ELSE [err |-> UnexpectedKeyword, device |-> NoDevice]

\* The keyword arguments devices() and the repr test construct a device
\* with.
PlatformKwargs(platform) == [client |-> client, platform |-> platform]

\* The keyword arguments that name every parameter of __init__.
FieldKwargs(platform) ==
    [client |-> client, id |-> platform.id, name |-> platform.name,
     version |-> platform.version, num_qubits |-> platform.max_qubit_count,
     metadata |-> None]

\* The i-th platform of the remote side.
Platform(i, backend, availability) ==
    [id |-> PlatformIds[i], name |-> "EMU-QSIM-16C-128M", version |-> "0.0",
     max_qubit_count |-> QubitCounts[i], backend_name |-> backend,
     availability |-> availability]

\* What list_platforms may answer.
RemotePlatforms ==
    UNION {{[i \in 1..n |-> Platform(i, f[i][1], f[i][2])]
              : f \in [1..n -> PlatformKinds]}
             : n \in 0..MaxPlatforms}

\* ScalewayDevice.availability of the device b when the remote side holds
\* the platforms `remote`.
Availability(b, remote) ==
    LET i == CHOOSE k \in DOMAIN remote : remote[k].id = b.id
    IN remote[i].availability

\* _filters(backends, filters)
Filters(backends, f, remote) ==
    LET Operational(b) == Availability(b, remote) \in {"available", "scarce"}
        Large(b) == b.num_qubits >= f.min_num_qubits
        first == IF f.operational # None
                 THEN SelectSeq(backends, Operational) ELSE backends
    IN IF f.min_num_qubits # NoMinimum
       THEN SelectSeq(first, Large) ELSE first

\* devices() once list_platforms has answered: a ScalewayDevice for every
\* platform of the backend "qsim", then the filters.
DevicesOutcome(answer, f) ==
    LET IsQsim(platform) == platform.backend_name = "qsim"
        qsim == SelectSeq(answer, IsQsim)
        built == [i \in DOMAIN qsim |-> NewDevice(PlatformKwargs(qsim[i]))]
        listed == <<Request("list_platforms", None)>>
    IN IF \E i \in DOMAIN built : built[i].err # NoError
       THEN [err |-> UnexpectedKeyword, ret |-> << >>, requests |-> listed]
       ELSE LET devs == [i \in DOMAIN qsim |-> built[i].device]
                asked == [i \in DOMAIN devs |->
                            Request("get_platform", devs[i].id)]
            IN [err |-> NoError, ret |-> Filters(devs, f, answer),
                requests |-> IF f.operational # None
                             THEN listed \o asked ELSE listed]

\* ScalewayQuantumService.devices(name, **kwargs)
Devices ==
    /\ client.created
    /\ service_op' = "devices"
    /\ \E operational \in {None, "True", "False"},
          min_num_qubits \in {NoMinimum, 10} :
          filters' = [operational |-> operational,
                      min_num_qubits |-> min_num_qubits]
    /\ \/ \* list_platforms raises
          /\ platforms' = << >>
          /\ service_err' = TransportError
          /\ devices_ret' = << >>
          /\ service_requests' = <<Request("list_platforms", None)>>
       \/ \E answer \in RemotePlatforms :
            LET o == DevicesOutcome(answer, filters') IN
            /\ platforms' = answer
            /\ service_err' = o.err
            /\ devices_ret' = o.ret
            /\ service_requests' = o.requests
    /\ service_args' = NoArgs
    /\ environ' = NoArgs
    /\ UNCHANGED <<client, device, ctorVars, sideVars>>

\* ScalewayQuantumService.device(name)
FindDevice ==
    /\ client.created
    /\ service_op' = "device"
    /\ filters' = NoFilters
    /\ \/ \* list_platforms raises
          /\ platforms' = << >>
          /\ service_err' = TransportError
          /\ service_requests' = <<Request("list_platforms", None)>>
          /\ device' = NoDevice
       \/ \E answer \in RemotePlatforms :
            LET o == DevicesOutcome(answer, filters') IN
            /\ platforms' = answer
            /\ service_err' = o.err
            /\ service_requests' = o.requests
            /\ device' = IF o.ret = << >> THEN NoDevice ELSE o.ret[1]
    /\ devices_ret' = << >>
    /\ service_args' = NoArgs
    /\ environ' = NoArgs
    /\ UNCHANGED <<client, ctorVars, sideVars>>

\* ScalewayDevice(client=..., platform=...) made by a caller, as the test
\* of __repr__ does.
DeviceFromPlatform ==
    /\ service_op' = "device_from_platform"
    /\ \E i \in 1..MaxPlatforms :
          LET platform == Platform(i, "qsim", "scarce")
              o == NewDevice(PlatformKwargs(platform))
          IN
          /\ platforms' = <<platform>>
          /\ service_err' = o.err
          /\ device' = o.device
    /\ service_requests' = << >>
    /\ filters' = NoFilters
    /\ devices_ret' = << >>
    /\ service_args' = NoArgs
    /\ environ' = NoArgs
    /\ UNCHANGED <<client, ctorVars, sideVars>>

\* ScalewayDevice(client, id, name, version, num_qubits, metadata) made by
\* a caller.
DeviceFromFields ==
    /\ service_op' = "device_from_fields"
    /\ \E i \in 1..MaxPlatforms :
          LET platform == Platform(i, "qsim", "scarce")
              o == NewDevice(FieldKwargs(platform))
          IN
          /\ platforms' = <<platform>>
          /\ service_err' = o.err
          /\ device' = o.device
    /\ service_requests' = << >>
    /\ filters' = NoFilters
    /\ devices_ret' = << >>
    /\ service_args' = NoArgs
    /\ environ' = NoArgs
    /\ UNCHANGED <<client, ctorVars, sideVars>>

\* ScalewayDevice.create_session(...): a new, unstarted session.
CreateSession ==
    /\ device # NoDevice
    /\ service_op' = "create_session"
    /\ \E args \in SessionArgs :
          /\ session_name' = args.name
          /\ deduplication_id' = args.deduplication_id
          /\ max_duration' = args.max_duration
          /\ max_idle_duration' = args.max_idle_duration
    /\ device_id' = device.id
    /\ service_err' = NoError
    /\ service_requests' = << >>
    /\ platforms' = << >>
    /\ filters' = NoFilters
    /\ devices_ret' = << >>
    /\ service_args' = NoArgs
    /\ environ' = NoArgs
    /\ UNCHANGED <<client, device, sideVars>>

\* The service: its construction and its listing of devices.
ServiceNext ==
    \/ NewService
    \/ Devices
    \/ FindDevice

ServiceSpec == ServiceInit /\ [][ServiceNext]_vars

\* The device: its construction and the sessions made from it.
DeviceNext ==
    \/ DeviceFromPlatform
    \/ DeviceFromFields
    \/ CreateSession

DeviceSpec == ServiceInit /\ [][DeviceNext]_vars

\* The construction of the service alone.
ConfigSpec == ServiceInit /\ [][NewService]_vars

\* ================================================================ claims

\* C1: once __id is bound it stays bound to the same identifier, and every
\* later start() (also the one __enter__ makes), whatever was called in
\* between, raises "session already started" without sending any request.
C1_StartOnlyOnce ==
    [][Truthy(id) =>
         /\ id' = id
         /\ (op' \in {"start", "enter"} /\ vars' # vars) =>
               (err' = AlreadyStarted /\ requests' = << >>)]_vars

\* A start() refused on a session that was started and then stopped.
C1_Witness ==
    /\ op = "start"
    /\ closing = "terminate"
    /\ Truthy(id)
    /\ err = AlreadyStarted
    /\ requests = << >>

\* C2: with no identifier bound, stop(), delete() and run_sweep() raise
\* "session not started", send no request and leave __id unbound.
C2_NotStarted ==
    [][(~Truthy(id) /\ vars' # vars
          /\ op' \in {"stop", "delete", "run_sweep"}) =>
         /\ err' = NotStarted
         /\ requests' = << >>
         /\ pc' = "idle"
         /\ jobs' = << >>
         /\ models' = << >>
         /\ id' = id]_vars

\* run_sweep with at least one resolver refused on an unstarted session.
C2_Witness ==
    /\ op = "run_sweep"
    /\ id = None
    /\ all_params # << >>
    /\ err = NotStarted
    /\ requests = << >>

\* C3: entering a `with` block sends create_session and binds the
\* identifier; inside the block the identifier bound at entry stays bound;
\* __exit__, whatever the body did, sends exactly terminate_session for
\* the identifier bound at entry.
C3_ManagedBlock ==
    /\ block = "in" => (Truthy(id) /\ entry_id = id)
    /\ (op = "enter" /\ err = NoError) =>
          (block = "in" /\ requests = <<Request("create_session", CreateSessionArgs)>>)
    /\ op = "exit" =>
          /\ block = "out"
          /\ requests = <<Request("terminate_session", entry_id)>>

\* The block is left by the timeout error of a run_sweep made in its body.
C3_Witness ==
    /\ op = "exit"
    /\ exit_exc = TimedOut
    /\ Truthy(entry_id)
    /\ requests = <<Request("terminate_session", entry_id)>>

\* C4: when the block body raised and the stop() of __exit__ raised too,
\* the caller of the `with` statement gets the error of the body.
C4_BodyErrorWins ==
    (op = "exit" /\ exit_exc # NoError /\ stop_exc # NoError) =>
       err = exit_exc

\* C5: on a started session a run_sweep all of whose jobs completed with
\* one decodable result (and whose models were all pushed and whose
\* requests were all answered) returns one
\* result per resolver, the i-th being the decoded result of the job that
\* ran the circuit with the i-th resolver applied.
C5_EveryBinding ==
    (/\ op = "run_sweep"
     /\ pc = "idle"
     /\ Truthy(id)
     /\ err \notin {TransportError, PushFailed}
     /\ \A j \in DOMAIN jobs :
           /\ jobs[j].status = "completed"
           /\ jobs[j].nres = 1
           /\ Decodable(jobs[j].delivered)) =>
       /\ err = NoError
       /\ Len(sweep_ret) = Len(all_params)
       /\ \A i \in DOMAIN sweep_ret :
             /\ sweep_ret[i] = Decode(jobs[i].delivered)
             /\ models[jobs[i].model].program.binding = all_params[i]

\* C6: the wait never goes on once elapsed has reached the timeout: the
\* iteration that finds elapsed >= timeout raises the timeout error
\* without sending anything, the requests of the failed wait are
\* create_model, create_job and get_job only, and what follows the failure
\* sends no get_job, list_job_results or http_get.
C6_Timeout ==
    /\ []((pc = "poll" /\ timeout # NoTimeout) => elapsed < timeout)
    /\ []((op = "run_sweep" /\ pc = "idle" /\ err = TimedOut) =>
            /\ timeout # NoTimeout
            /\ elapsed >= timeout
            /\ \A i \in DOMAIN requests :
                  requests[i].op \in {"create_model", "create_job", "get_job"})
    /\ [][(pc = "poll" /\ timeout # NoTimeout /\ elapsed' >= timeout) =>
            /\ err' = TimedOut
            /\ pc' = "idle"
            /\ requests' = requests
            /\ jobs' = jobs]_vars
    /\ [][(op = "run_sweep" /\ pc = "idle" /\ err = TimedOut) =>
            \A i \in DOMAIN requests' :
               requests'[i].op \notin {"get_job", "list_job_results",
                                       "http_get"}]_vars

\* A wait that fetched a queued or running job and then timed out.
C6_Witness ==
    /\ op = "run_sweep"
    /\ pc = "idle"
    /\ err = TimedOut
    /\ last_status \in {"queued", "running"}
    /\ \E i \in DOMAIN requests : requests[i].op = "get_job"

\* C7: a fetched status error or unknown_status ends run_sweep at once with
\* an error whose message contains the job's progress message, get_job
\* being the last request and list_job_results never sent; a fetched
\* status queued or running, whichever of the two, only leads to the next
\* iteration.
C7_JobFailure ==
    /\ [](last_status \in {"error", "unknown_status"} =>
            /\ pc = "idle"
            /\ err = <<"Job failed: ", jobs[job_id].progress_message>>
            /\ \E k \in DOMAIN err : err[k] = jobs[job_id].progress_message
            /\ requests[Len(requests)].op = "get_job"
            /\ requests[Len(requests)].arg = job_id
            /\ \A i \in DOMAIN requests :
                  requests[i].op \notin {"list_job_results", "http_get"}
            /\ jobs[job_id].delivered = None
            /\ sweep_ret = << >>)
    /\ [][(pc = "poll" /\ last_status' \in {"queued", "running"}
             /\ requests' # requests /\ err' # TransportError) =>
            /\ pc' = "poll"
            /\ err' = err
            /\ requests' = Append(requests, Request("get_job", job_id))
            /\ trial_results' = trial_results
            /\ job_result' = job_result]_vars

\* The job ended in error with the progress message "simulator crashed".
C7_Witness ==
    /\ op = "run_sweep"
    /\ last_status = "error"
    /\ err = JobFailed("simulator crashed")

\* C8 as stated: whatever the status the job ended in, a result list that
\* is not of length one makes run_sweep raise the single-result error.
C8_RegardlessOfStatus ==
    (/\ op = "run_sweep"
     /\ pc = "idle"
     /\ last_status \in {"completed", "error", "unknown_status"}
     /\ jobs[job_id].nres # 1
     /\ err # TransportError) =>
       err = NotSingleResult

\* C8 amended: the result list is fetched for a completed job only, and
\* when list_job_results returns a list that is not of length one,
\* run_sweep raises the single-result error, and nothing of that job is
\* extracted, fetched by HTTP, decoded or returned.
C8_SingleResult ==
    (last_status = "completed" /\ jobs[job_id].nres # 1) =>
       /\ pc = "idle"
       /\ err \in {NotSingleResult, TransportError}
       /\ requests[Len(requests)] = Request("list_job_results", job_id)
       /\ job_result = NoJobResult
       /\ jobs[job_id].delivered = None
       /\ Len(trial_results) = job_id - 1
       /\ sweep_ret = << >>

\* A completed job whose result list has two elements.
C8_Witness ==
    /\ op = "run_sweep"
    /\ last_status = "completed"
    /\ jobs[job_id].nres = 2
    /\ err = NotSingleResult

\* C9: once a job result reached the extraction: with an empty payload
\* (None or "") and an empty url (None or "") the empty-result error is
\* raised and no HTTP GET is made; with a non-empty payload that payload is
\* the text that is decoded and no HTTP GET is made.
C9_EmptyResult ==
    (/\ op = "run_sweep"
     /\ last_status = "completed"
     /\ jobs[job_id].nres = 1
     /\ err # TransportError) =>
       LET NoGet == \A i \in DOMAIN requests : requests[i].op # "http_get"
       IN
       /\ (~Truthy(job_result.result) /\ ~Truthy(job_result.url)) =>
             (err = EmptyResult /\ NoGet)
       /\ Truthy(job_result.result) =>
             (NoGet /\ jobs[job_id].delivered = job_result.result)

\* C10 as stated: with no identifier bound the status query returns
\* "unknown" and sends no request.
C10_Unknown ==
    (op = "status" /\ ~Truthy(id)) =>
       (ret = "unknown" /\ requests = << >>)

\* C10 amended: with no identifier bound the status query returns
\* "unknown_status", raises nothing and sends no request.
C10_UnknownStatus ==
    (op = "status" /\ ~Truthy(id)) =>
       (ret = "unknown_status" /\ err = NoError /\ requests = << >>)

\* The status of a session that was never started has been queried.
C10_Witness ==
    /\ op = "status"
    /\ id = None
    /\ ret = "unknown_status"

\* C11: with an identifier bound, every status query sends one get_session
\* for that identifier and returns what the remote side answers to that
\* very request, whatever an earlier query returned; a query that fails
\* returns nothing.
C11_FreshStatus ==
    (op = "status" /\ Truthy(id)) =>
       /\ requests = <<Request("get_session", id)>>
       /\ err = NoError => ret = session_status
       /\ err # NoError => ret = None

\* Two status queries in a row, between which the remote session went from
\* running to stopping, returned "running" and then "stopping".
C11_Witness ==
    /\ op = "status"
    /\ Truthy(id)
    /\ prev_ret = "running"
    /\ ret = "stopping"
    /\ session_status = "stopping"

\* C12: start() on an unstarted session sends exactly one request, the
\* create_session whose name, deduplication_id, max_duration and
\* max_idle_duration are the values stored at construction, unchanged, and
\* whose platform_id is the id of the device; when the request is answered
\* __id is the id of the answer.
C12_CreateSession ==
    (op = "start" /\ err # AlreadyStarted) =>
       /\ Len(requests) = 1
       /\ requests[1].op = "create_session"
       /\ requests[1].arg.name = session_name
       /\ requests[1].arg.deduplication_id = deduplication_id
       /\ requests[1].arg.max_duration = max_duration
       /\ requests[1].arg.max_idle_duration = max_idle_duration
       /\ requests[1].arg.platform_id = device_id
       /\ DOMAIN requests[1].arg =
             {"name", "platform_id", "deduplication_id", "max_duration",
              "max_idle_duration"}
       /\ err = NoError => (Truthy(created_id) /\ id = created_id)
       /\ err # NoError => (err = TransportError /\ id = None)

\* The session made with max_duration "1h" and max_idle_duration "20m" on
\* the device "dev-1" has been started and the remote side answered "s2".
C12_Witness ==
    /\ op = "start"
    /\ err = NoError
    /\ max_duration = "1h"
    /\ max_idle_duration = "20m"
    /\ device_id = "dev-1"
    /\ requests[1].arg.max_duration = "1h"
    /\ requests[1].arg.max_idle_duration = "20m"
    /\ requests[1].arg.platform_id = "dev-1"
    /\ id = "s2"

\* C13: a listing with min_num_qubits=k (and operational absent or true)
\* that list_platforms answered returns, without an error, exactly the
\* devices of the "qsim" platforms whose qubit count is at least k (and,
\* with operational, whose availability is available or scarce).
C13_MinimumQubits ==
    (/\ service_op = "devices"
     /\ service_err # TransportError
     /\ filters.min_num_qubits # NoMinimum
     /\ filters.operational # "False") =>
       LET wanted ==
             {k \in DOMAIN platforms :
                /\ platforms[k].backend_name = "qsim"
                /\ platforms[k].max_qubit_count >= filters.min_num_qubits
                /\ filters.operational # None =>
                      platforms[k].availability \in {"available", "scarce"}}
       IN
       /\ service_err = NoError
       /\ {devices_ret[i].id : i \in DOMAIN devices_ret}
             = {platforms[k].id : k \in wanted}
       /\ Len(devices_ret) = Cardinality(wanted)

\* C14: the service takes project id, secret key and URL from its
\* arguments, and from the environment for those that are not given (None
\* or empty); when the secret key or the project id is then missing (None)
\* the construction raises the configuration error, no client is created
\* and nothing is sent; otherwise the client is created with the three
\* values, and nothing is sent either.
C14_Configuration ==
    service_op = "init" =>
       LET Pick(a, e) == IF a # None /\ a # "" THEN a ELSE e
           key == Pick(service_args.secret_key, environ.secret_key)
           project == Pick(service_args.project_id, environ.project_id)
           endpoint == Pick(service_args.url, environ.url)
       IN
       /\ service_requests = << >>
       /\ key = None =>
             (service_err = SecretKeyMissing /\ ~client.created)
       /\ (key # None /\ project = None) =>
             (service_err = ProjectIdMissing /\ ~client.created)
       /\ (key # None /\ project # None) =>
             /\ service_err = NoError
             /\ client = [created |-> TRUE, url |-> endpoint,
                          secret_key |-> key, project_id |-> project]

\* The secret key came from the environment, the project id was neither
\* given nor in the environment, and the construction failed.
C14_Witness ==
    /\ service_op = "init"
    /\ service_args.secret_key = None
    /\ environ.secret_key = "env-key"
    /\ service_args.project_id = None
    /\ environ.project_id = None
    /\ service_err = ProjectIdMissing
    /\ ~client.created

\* C15: a device made from a client and a platform record is created, and
\* its id, name, version and num_qubits are the record's id, name, version
\* and max_qubit_count.
C15_DeviceFromPlatform ==
    service_op = "device_from_platform" =>
       /\ service_err = NoError
       /\ device.id = platforms[1].id
       /\ device.name = platforms[1].name
       /\ device.version = platforms[1].version
       /\ device.num_qubits = platforms[1].max_qubit_count

\* C16: inside run_sweep the jobs are created one per loop iteration, in
\* the order of the resolvers; when a job is created or polled every
\* earlier job of the call has completed and its result has been fetched,
\* decoded and appended, so only the last job can be one that is polled.
C16_Sequential ==
    op = "run_sweep" =>
       /\ Len(jobs) <= Len(all_params) - Len(params)
       /\ Len(jobs) - Len(trial_results) \in {0, 1}
       /\ \A j \in DOMAIN jobs :
             (j < Len(jobs) \/ pc = "loop") =>
                /\ jobs[j].status = "completed"
                /\ Decodable(jobs[j].delivered)
                /\ trial_results[j] = Decode(jobs[j].delivered)
       /\ pc = "poll" =>
             /\ job_id = Len(jobs)
             /\ job_id = Len(all_params) - Len(params)
             /\ Len(trial_results) = job_id - 1
             /\ jobs[job_id].delivered = None

\* The second job of a sweep is polled after the first one completed and
\* its result "r2" was decoded.
C16_Witness ==
    /\ op = "run_sweep"
    /\ pc = "poll"
    /\ job_id = 2
    /\ jobs[1].status = "completed"
    /\ trial_results = <<"r2">>
    /\ jobs[2].status = "running"

\* C17: the requests of one loop iteration are create_model, then
\* create_job for __id, then get_job requests for the created job, then at
\* most one list_job_results, which follows a get_job that found the job
\* completed; when create_model returns no model the "failed to push"
\* error is raised with create_model as the only request and no job; every
\* job refers to __id and to the model pushed just before it.
C17_RequestOrder ==
    op = "run_sweep" =>
       /\ \A i \in DOMAIN requests :
             /\ i = 1 => requests[i].op = "create_model"
             /\ i = 2 => (requests[i].op = "create_job"
                          /\ requests[i].arg = id)
             /\ i > 2 => requests[i].op \in {"get_job", "list_job_results",
                                             "http_get"}
             /\ requests[i].op \in {"get_job", "list_job_results"} =>
                   requests[i].arg = job_id
             /\ requests[i].op = "get_job" =>
                   requests[i - 1].op \in {"create_job", "get_job"}
             /\ requests[i].op = "list_job_results" =>
                   /\ requests[i - 1].op = "get_job"
                   /\ last_status = "completed"
                   /\ jobs[job_id].status = "completed"
             /\ requests[i].op = "http_get" =>
                   (requests[i - 1].op = "list_job_results"
                    /\ i = Len(requests))
       /\ err = PushFailed =>
             /\ requests = <<Request("create_model", None)>>
             /\ Len(jobs) = Len(trial_results)
             /\ Len(models) = Len(jobs)
       /\ Len(requests) >= 3 => (job_id = Len(jobs) /\ job_id >= 1)
       /\ \A j \in DOMAIN jobs :
             /\ jobs[j].session = id
             /\ jobs[j].model = j
             /\ j <= Len(models)

\* An iteration that sent create_model, create_job, two get_job and one
\* list_job_results, and got its result.
C17_Witness ==
    /\ op = "run_sweep"
    /\ pc = "loop"
    /\ Len(requests) = 5
    /\ requests[3].op = "get_job"
    /\ requests[4].op = "get_job"
    /\ requests[5].op = "list_job_results"
    /\ Len(trial_results) = 1

\* C18: every job of a sweep carries the serialization of the circuit of
\* the call with the resolver of its index applied, every resolver gets
\* its circuit resolved and serialized, and every job carries the
\* repetitions of the call as its shot count.
C18_ProgramPerBinding ==
    op = "run_sweep" =>
       /\ err # SerializeError
       /\ \A j \in DOMAIN jobs :
             /\ models[jobs[j].model].program
                   = Serialize(Resolve(Circuit, all_params[j]))
             /\ jobs[j].shots = repetitions

\* C19: __id is None or an id the remote side gave; it changes only in a
\* start() (also the one of __enter__) that finds it None and whose
\* create_session is answered, and becomes the id of the answer; a start()
\* whose create_session raises leaves it None; once a terminate_session or
\* delete_session was sent __id is still bound, and stop(), delete() and
\* run_sweep() do not raise "session not started".
C19_Identifier ==
    /\ [](id = None \/ id \in SessionIds)
    /\ [](closing # "none" => Truthy(id))
    /\ [][/\ id' # id =>
              /\ op' \in {"start", "enter"}
              /\ id = None
              /\ err' = NoError
              /\ Truthy(id')
              /\ id' = created_id'
          /\ (op' \in {"start", "enter"} /\ err' = TransportError) =>
                (id' = None /\ created_id' = None)
          /\ (closing # "none"
                /\ op' \in {"stop", "delete", "run_sweep", "exit"}) =>
                err' # NotStarted]_vars

\* A run_sweep on a session that was deleted before got past the local
\* check and polls its job.
C19_Witness ==
    /\ op = "run_sweep"
    /\ closing = "delete"
    /\ pc = "poll"
    /\ Truthy(id)

\* C20: a run_sweep that raised is over: it returned nothing, also when
\* earlier iterations had got their results, its last iteration sent at
\* most one create_model and one create_job, nothing is sent for the
\* resolvers that remain, and from the call to its end __id stays bound and
\* no terminate_session or delete_session is sent.
C20_FailedSweep ==
    /\ []((op = "run_sweep" /\ err # NoError) =>
            /\ pc = "idle"
            /\ sweep_ret = << >>
            /\ err # NotStarted => Truthy(id)
            /\ Cardinality({i \in DOMAIN requests :
                               requests[i].op = "create_model"}) <= 1
            /\ Cardinality({i \in DOMAIN requests :
                               requests[i].op = "create_job"}) <= 1
            /\ \A i \in DOMAIN requests :
                  requests[i].op \notin {"terminate_session",
                                         "delete_session"})
    /\ [][(op = "run_sweep" /\ op' = "run_sweep") =>
            /\ id' = id
            /\ closing' = closing
            /\ err # NoError =>
                  (/\ Len(models') <= Len(models)
                   /\ Len(jobs') <= Len(jobs)
                   /\ \/ requests' = requests
                      \/ requests' = << >>)]_vars

\* The second iteration of a sweep timed out after the first had got its
\* result: nothing is returned.
C20_Witness ==
    /\ op = "run_sweep"
    /\ pc = "idle"
    /\ err = TimedOut
    /\ Len(trial_results) = 1
    /\ job_id = 2
    /\ sweep_ret = << >>
    /\ Truthy(id)

\* C21: every get_job of a wait comes after one more sleep of the fetch
\* interval; the iteration whose elapsed time has reached the timeout
\* raises the timeout error and sends nothing, whatever has become of the
\* job; with a timeout that is at most the fetch interval the wait ends in
\* its first iteration with the timeout error and without any get_job.
C21_SleepFirst ==
    /\ [](op = "run_sweep" =>
            LET fetches == Cardinality({i \in DOMAIN requests :
                                          requests[i].op = "get_job"})
            IN
            /\ fetches * fetch_interval <= elapsed
            /\ (timeout # NoTimeout /\ timeout <= fetch_interval) =>
                  fetches = 0)
    /\ [][(pc = "poll" /\ timeout # NoTimeout /\ elapsed' >= timeout) =>
            /\ err' = TimedOut
            /\ requests' = requests
            /\ jobs' = jobs
            /\ last_status' = last_status
            /\ trial_results' = trial_results]_vars
    /\ [][(pc = "poll" /\ timeout # NoTimeout
             /\ timeout <= fetch_interval) =>
            /\ elapsed = 0
            /\ err' = TimedOut
            /\ pc' = "idle"
            /\ Len(requests') = 2]_vars

\* With timeout 1 and fetch interval 1 the wait for a created job timed out
\* without having fetched the job.
C21_Witness ==
    /\ op = "run_sweep"
    /\ pc = "idle"
    /\ err = TimedOut
    /\ timeout = 1
    /\ fetch_interval = 1
    /\ Len(requests) = 2
    /\ requests[2].op = "create_job"
    /\ last_status = None

\* C22: with a timeout every wait ends; a wait ends by the list of a
\* completed job being asked for, by the failure of a job in error or
\* unknown_status, by the timeout error, or by a request that raises; the
\* get_job requests of one wait, times the fetch interval, stay below the
\* timeout; without a timeout an iteration that finds the job queued or
\* running is always followed by another one.
C22_Termination ==
    /\ (pc = "poll" /\ timeout # NoTimeout) ~> (pc # "poll")
    /\ []((op = "run_sweep" /\ timeout # NoTimeout) =>
            Cardinality({i \in DOMAIN requests :
                           requests[i].op = "get_job"}) * fetch_interval
               < timeout)
    /\ [][(pc = "poll" /\ pc' # "poll") =>
            \/ err' = TimedOut /\ timeout # NoTimeout
            \/ err' = TransportError
            \/ /\ last_status' = "completed"
               /\ \E i \in DOMAIN requests' :
                     requests'[i].op = "list_job_results"
            \/ /\ last_status' \in {"error", "unknown_status"}
               /\ err' = JobFailed(jobs'[job_id].progress_message)]_vars
    /\ [][(pc = "poll" /\ timeout = NoTimeout /\ requests' # requests
             /\ err' # TransportError
             /\ last_status' \in {"queued", "running"}) =>
            (pc' = "poll" /\ err' = err)]_vars

\* With timeout 2 and fetch interval 1 a wait fetched the job once, found
\* it running, and timed out in its second iteration.
C22_Witness ==
    /\ op = "run_sweep"
    /\ pc = "idle"
    /\ err = TimedOut
    /\ timeout = 2
    /\ fetch_interval = 1
    /\ Len(requests) = 3
    /\ requests[3].op = "get_job"
    /\ last_status = "running"

====
